---- MODULE Spec2Model ----
(***************************************************************************)
(* Campaign scheduling and delivery pipeline of EkTola.                    *)
(*                                                                         *)
(* The model follows the control flow of the Python source.  Enum members  *)
(* are taken by the name the code writes (RecurrenceType.ONCE, the run     *)
(* status PENDING, the message statuses PENDING and SENDING), dates are    *)
(* compared with datetimes as the database does (a date is its midnight).  *)
(*                                                                         *)
(* Time is counted in ticks of the wall clock; day 0 is a Monday and the   *)
(* first day of a month.                                                   *)
(***************************************************************************)
EXTENDS Integers, Sequences, FiniteSets, TLC

\* ---------------------------------------------------------------- bounds
TicksPerDay == 2
DaysPerWeek == 7
DaysPerMonth == 30
NumCampaigns == 1
MaxRuns == 2
NumMsgs == 1
MaxTs == 1
MaxEvents == 1
MaxRedeliveries == 1
MaxContactChanges == 1
MaxTaskErrors == 1

\* self.retry(exc=e, countdown=60, max_retries=3)
MaxRetries == 3

NoDate == -1
NoRun == 0
NoId == 0
NoTs == -1
NoReason == "none"
NoSecret == ""

Campaigns == 1..NumCampaigns
Schedulers == {"api", "beat"}
Recurrences == {"ONCE", "DAILY", "WEEKLY", "MONTHLY"}

\* The instants the clock visits: two in the first day, then the first
\* instant of the next day, of the next week and of the next month.
Instants ==
  {0, 1, TicksPerDay, TicksPerDay * DaysPerWeek, TicksPerDay * DaysPerMonth}

VARIABLES
  now,         \* datetime.utcnow()
  campaigns,   \* table campaigns: id -> row
  contacts,    \* table contacts: id -> row
  runs,        \* table campaign_runs: sequence of rows, id = index
  tasks,       \* Celery queue of execute_campaign_run: run id -> task state
  messages,    \* table messages: sequence of rows, id = index
  sched,       \* position of each scheduler entry point inside its tick
  evals,       \* per campaign: dedup evaluations made in the current period
  bulk,        \* position of MessageService.send_bulk_campaign_messages
  nextWamid,   \* next message id the provider assigns
  sends,       \* Celery queue of send_campaign_message: one task per message
  redeliveries,\* per run: deliveries of its execute_campaign_run task after the first
  events,      \* table webhook_events: number of rows
  app_secret,  \* settings.WHATSAPP_APP_SECRET
  is_configured \* whatsapp_service.is_configured: the provider client exists

vars ==
  <<now, campaigns, contacts, runs, tasks, messages, sched, evals, bulk,
    nextWamid, sends, redeliveries, events, app_secret, is_configured>>


\* ------------------------------------------------------------ the calendar
Day(t) == t \div TicksPerDay

DateTimeOf(d) == d * TicksPerDay

PeriodStart(recurrence, t) ==
  CASE recurrence = "DAILY" -> DateTimeOf(Day(t))
    [] recurrence = "WEEKLY" -> DateTimeOf(Day(t) - (Day(t) % DaysPerWeek))
    [] recurrence = "MONTHLY" -> DateTimeOf(Day(t) - (Day(t) % DaysPerMonth))
    [] OTHER -> 0

\* ------------------------------------------------------------------ tables
ContactTable ==
  <<[jeweller_id |-> 1, is_deleted |-> FALSE, opted_out |-> FALSE, segment |-> "MARKETING"],
    [jeweller_id |-> 1, is_deleted |-> FALSE, opted_out |-> TRUE, segment |-> "GOLD_LOAN"],
    [jeweller_id |-> 1, is_deleted |-> TRUE, opted_out |-> FALSE, segment |-> "GOLD_LOAN"],
    [jeweller_id |-> 2, is_deleted |-> FALSE, opted_out |-> FALSE, segment |-> "MARKETING"]>>

CampaignRows ==
  [status : {"ACTIVE"},
   recurrence_type : Recurrences,
   start_date : {0, 1},
   end_date : {NoDate, 0},
   jeweller_id : {1},
   target_segment : {"none"}]

\* CampaignRun(campaign_id, scheduled_at, status=PENDING) with the column defaults
NewRun(c, at) ==
  [campaign_id |-> c,
   scheduled_at |-> at,
   started_at |-> NoDate,
   status |-> "PENDING",
   total_contacts |-> 0,
   eligible_contacts |-> 0,
   messages_queued |-> 0,
   messages_sent |-> 0,
   messages_delivered |-> 0,
   messages_read |-> 0,
   messages_failed |-> 0]

\* Message row with the column defaults
NewMessage(campaign, run, contact, st) ==
  [campaign_id |-> campaign,
   campaign_run_id |-> run,
   contact_id |-> contact,
   whatsapp_message_id |-> NoId,
   status |-> st,
   sent_at |-> NoTs,
   delivered_at |-> NoTs,
   read_at |-> NoTs,
   failed_at |-> NoTs,
   failure_reason |-> NoReason,
   retry_count |-> 0]

\* send_campaign_message.delay(message.id), queued while run r executes
NewSend(m, r) ==
  [message |-> m, run |-> r, pc |-> "queued", retries |-> 0, attempts |-> 0, result |-> "none"]

IdleSched == [pc |-> "idle", at |-> 0, todo |-> <<>>, seen |-> 0]
IdleBulk == [pc |-> "idle", run |-> NoRun, todo |-> <<>>, sent_count |-> 0, failed_count |-> 0]

\* ------------------------------------------------------- recurrence evaluator
RunIds == DOMAIN runs

Expired(c, t) ==
  /\ campaigns[c].end_date # NoDate
  /\ t > DateTimeOf(campaigns[c].end_date)

\* a variant that counts a run of the period whatever its status
HasRunInCurrentPeriodAnyStatus(c, t) ==
  IF campaigns[c].recurrence_type \in {"DAILY", "WEEKLY", "MONTHLY"}
  THEN \E r \in RunIds :
         /\ runs[r].campaign_id = c
         /\ runs[r].scheduled_at >= PeriodStart(campaigns[c].recurrence_type, t)
  ELSE FALSE

HasRunInCurrentPeriod(c, t) ==
  IF campaigns[c].recurrence_type \in {"DAILY", "WEEKLY", "MONTHLY"}
  THEN \E r \in RunIds :
         /\ runs[r].campaign_id = c
         /\ runs[r].scheduled_at >= PeriodStart(campaigns[c].recurrence_type, t)
         /\ runs[r].status \in {"COMPLETED", "RUNNING"}
  ELSE FALSE

ShouldExecuteCampaign(c, t) ==
  IF Expired(c, t) THEN FALSE
  ELSE IF campaigns[c].recurrence_type = "ONCE"
  THEN ~ \E r \in RunIds :
           /\ runs[r].campaign_id = c
           /\ runs[r].status \in {"COMPLETED", "RUNNING"}
  ELSE ~ HasRunInCurrentPeriod(c, t)

\* a variant in which a run of any period suppresses the next one
ShouldRunAnyPeriod(c, t) ==
  IF campaigns[c].recurrence_type = "ONCE"
  THEN /\ ~ \E r \in RunIds : runs[r].campaign_id = c
       /\ DateTimeOf(campaigns[c].start_date) <= t
  ELSE ~ \E r \in RunIds : runs[r].campaign_id = c

\* the decision check_pending_campaigns takes inline
ShouldRun(c, t) ==
  IF campaigns[c].recurrence_type = "ONCE"
  THEN /\ ~ \E r \in RunIds : runs[r].campaign_id = c
       /\ DateTimeOf(campaigns[c].start_date) <= t
  ELSE ~ \E r \in RunIds :
           /\ runs[r].campaign_id = c
           /\ runs[r].scheduled_at >= PeriodStart(campaigns[c].recurrence_type, t)

\* query(Campaign).filter(status == ACTIVE, start_date <= now).all()
RECURSIVE ActiveCampaignsFrom(_, _)
ActiveCampaignsFrom(c, t) ==
  IF c > NumCampaigns THEN <<>>
  ELSE IF campaigns[c].status = "ACTIVE" /\ DateTimeOf(campaigns[c].start_date) <= t
  THEN <<c>> \o ActiveCampaignsFrom(c + 1, t)
  ELSE ActiveCampaignsFrom(c + 1, t)

ActiveCampaigns(t) == ActiveCampaignsFrom(1, t)

SamePeriod(c, t1, t2) ==
  PeriodStart(campaigns[c].recurrence_type, t1) = PeriodStart(campaigns[c].recurrence_type, t2)

\* one more dedup evaluation of campaign c made by a tick taken at time t
Evaluated(c, t) ==
  IF SamePeriod(c, t, now) /\ evals[c] < 2
  THEN [evals EXCEPT ![c] = @ + 1]
  ELSE evals

\* the tick moves on to its next campaign
NextCampaign(s) ==
  IF Len(sched[s].todo) > 1
  THEN [sched EXCEPT ![s] = [pc |-> "eval", at |-> @.at, todo |-> Tail(@.todo), seen |-> 0]]
  ELSE [sched EXCEPT ![s] = IdleSched]

\* ------------------------------------------------------------ the wall clock
Advance ==
  /\ \E t \in Instants : t > now /\ now' = t
  /\ evals' = [c \in Campaigns |-> IF SamePeriod(c, now, now') THEN evals[c] ELSE 0]
  /\ UNCHANGED <<campaigns, contacts, runs, tasks, messages, sched, bulk, nextWamid, sends, redeliveries, events, app_secret, is_configured>>

\* how "db.commit(); execute_campaign_run.delay(run.id)" ends: both succeed,
\* the commit raises, or the commit succeeds and the hand-over to Celery raises
InsertOutcomes == {"ok", "commit_failed", "delay_failed"}

\* ------------------------------- CampaignScheduler.check_and_trigger_campaigns
CheckAndTriggerBegin ==
  /\ sched["api"].pc = "idle"
  /\ ActiveCampaigns(now) # <<>>
  /\ sched' = [sched EXCEPT !["api"] = [pc |-> "eval", at |-> now, todo |-> ActiveCampaigns(now), seen |-> 0]]
  /\ UNCHANGED <<now, campaigns, contacts, runs, tasks, messages, evals, bulk, nextWamid, sends, redeliveries, events, app_secret, is_configured>>

CheckAndTriggerEval ==
  /\ sched["api"].pc = "eval"
  /\ LET c == Head(sched["api"].todo)
         t == sched["api"].at
     IN IF Expired(c, t)
        THEN /\ campaigns' = [campaigns EXCEPT ![c].status = "COMPLETED"]
             /\ sched' = NextCampaign("api")
             /\ evals' = evals
        ELSE /\ campaigns' = campaigns
             /\ IF ShouldExecuteCampaign(c, t)
                THEN /\ sched' = [sched EXCEPT !["api"].pc = "insert", !["api"].seen = Len(runs)]
                     /\ evals' = evals
                ELSE /\ sched' = NextCampaign("api")
                     /\ evals' = Evaluated(c, t)
  /\ UNCHANGED <<now, contacts, runs, tasks, messages, bulk, nextWamid, sends, redeliveries, events, app_secret, is_configured>>

CheckAndTriggerInsert(outcome) ==
  /\ sched["api"].pc = "insert"
  /\ Len(runs) < MaxRuns
  /\ LET c == Head(sched["api"].todo)
         t == sched["api"].at
     IN CASE outcome = "ok" ->
               /\ runs' = Append(runs, NewRun(c, t))
               /\ tasks' = Append(tasks, "queued")
               /\ evals' = Evaluated(c, t)
               /\ sched' = NextCampaign("api")
          [] outcome = "delay_failed" ->
               /\ runs' = Append(runs, NewRun(c, t))
               /\ tasks' = Append(tasks, "lost")
               /\ evals' = evals
               /\ sched' = [sched EXCEPT !["api"] = IdleSched]
          [] OTHER ->
               /\ UNCHANGED <<runs, tasks, evals>>
               /\ sched' = [sched EXCEPT !["api"] = IdleSched]
  /\ UNCHANGED <<now, campaigns, contacts, messages, bulk, nextWamid, sends, redeliveries, events, app_secret, is_configured>>

\* ------------------------------------------- Celery beat: check_pending_campaigns
CheckPendingBegin ==
  /\ sched["beat"].pc = "idle"
  /\ ActiveCampaigns(now) # <<>>
  /\ sched' = [sched EXCEPT !["beat"] = [pc |-> "eval", at |-> now, todo |-> ActiveCampaigns(now), seen |-> 0]]
  /\ UNCHANGED <<now, campaigns, contacts, runs, tasks, messages, evals, bulk, nextWamid, sends, redeliveries, events, app_secret, is_configured>>

CheckPendingEval ==
  /\ sched["beat"].pc = "eval"
  /\ LET c == Head(sched["beat"].todo)
         t == sched["beat"].at
     IN IF ShouldRun(c, t)
        THEN /\ sched' = [sched EXCEPT !["beat"].pc = "insert", !["beat"].seen = Len(runs)]
             /\ evals' = evals
        ELSE /\ sched' = NextCampaign("beat")
             /\ evals' = Evaluated(c, t)
  /\ UNCHANGED <<now, campaigns, contacts, runs, tasks, messages, bulk, nextWamid, sends, redeliveries, events, app_secret, is_configured>>

CheckPendingInsert(outcome) ==
  /\ sched["beat"].pc = "insert"
  /\ Len(runs) < MaxRuns
  /\ LET c == Head(sched["beat"].todo)
         t == sched["beat"].at
     IN CASE outcome = "ok" ->
               /\ runs' = Append(runs, NewRun(c, t))
               /\ tasks' = Append(tasks, "queued")
               /\ evals' = Evaluated(c, t)
               /\ sched' = NextCampaign("beat")
          [] outcome = "delay_failed" ->
               /\ runs' = Append(runs, NewRun(c, t))
               /\ tasks' = Append(tasks, "lost")
               /\ evals' = evals
               /\ sched' = [sched EXCEPT !["beat"] = IdleSched]
          [] OTHER ->
               /\ UNCHANGED <<runs, tasks, evals>>
               /\ sched' = [sched EXCEPT !["beat"] = IdleSched]
  /\ UNCHANGED <<now, campaigns, contacts, messages, bulk, nextWamid, sends, redeliveries, events, app_secret, is_configured>>

\* ------------------------------------------- Celery task execute_campaign_run
\* query(Contact).filter(jeweller_id == campaign.jeweller_id, is_deleted == False)
\* narrowed to campaign.target_segment when the campaign has one
TargetContacts(c) ==
  {k \in DOMAIN contacts :
     /\ contacts[k].jeweller_id = campaigns[c].jeweller_id
     /\ ~ contacts[k].is_deleted
     /\ (campaigns[c].target_segment # "none"
           => contacts[k].segment = campaigns[c].target_segment)}

RECURSIVE MessagesFor(_, _)
MessagesFor(c, ks) ==
  IF ks = {} THEN <<>>
  ELSE LET k == CHOOSE x \in ks : \A y \in ks : x <= y
       IN <<NewMessage(c, NoRun, k, "PENDING")>> \o MessagesFor(c, ks \ {k})

ExecuteStart(r) ==
  /\ tasks[r] = "queued"
  /\ runs' = [runs EXCEPT ![r].status = "RUNNING", ![r].started_at = now]
  /\ tasks' = [tasks EXCEPT ![r] = "running"]
  /\ UNCHANGED <<now, campaigns, contacts, messages, sched, evals, bulk, nextWamid, sends, redeliveries, events, app_secret, is_configured>>

ExecuteFinish(r) ==
  /\ tasks[r] = "running"
  /\ LET created == MessagesFor(runs[r].campaign_id, TargetContacts(runs[r].campaign_id))
     IN /\ messages' = messages \o created
        /\ sends' = sends \o [i \in 1..Len(created) |-> NewSend(Len(messages) + i, r)]
  /\ runs' = [runs EXCEPT ![r].status = "COMPLETED"]
  /\ tasks' = [tasks EXCEPT ![r] = "done"]
  /\ UNCHANGED <<now, campaigns, contacts, sched, evals, bulk, nextWamid, redeliveries, events, app_secret, is_configured>>

\* the except branch: any error after the run was loaded
ExecuteFail(r) ==
  /\ tasks[r] = "running"
  /\ runs' = [runs EXCEPT ![r].status = "FAILED"]
  /\ tasks' = [tasks EXCEPT ![r] = "failed"]
  /\ UNCHANGED <<now, campaigns, contacts, messages, sched, evals, bulk, nextWamid, sends, redeliveries, events, app_secret, is_configured>>

\* the query that loads the run raises: campaign_run is not bound yet, so the
\* except branch cannot mark the run and raises in its turn
ExecuteLoadError(r) ==
  /\ tasks[r] = "queued"
  /\ tasks' = [tasks EXCEPT ![r] = "failed"]
  /\ UNCHANGED <<now, campaigns, contacts, runs, messages, sched, evals, bulk, nextWamid, sends, redeliveries, events, app_secret, is_configured>>

ExecuteCampaignRun ==
  \E r \in RunIds :
    ExecuteStart(r) \/ ExecuteFinish(r) \/ ExecuteFail(r) \/ ExecuteLoadError(r)

\* WhatsAppService.send_template_message: a message id on success, the
\* provider's error text otherwise
SendOutcomes == {"ok", "invalid_number", "timeout", "rate_limited"}

\* task_acks_late, task_reject_on_worker_lost: the broker delivers the task of
\* run r again when the worker is lost or its acknowledgement does not arrive
Redeliver(r) ==
  /\ tasks[r] \in {"running", "done", "failed"}
  /\ redeliveries[r] < MaxRedeliveries
  /\ tasks' = [tasks EXCEPT ![r] = "queued"]
  /\ redeliveries' = [redeliveries EXCEPT ![r] = @ + 1]
  /\ UNCHANGED <<now, campaigns, contacts, runs, messages, sched, evals, bulk, nextWamid, sends, events, app_secret, is_configured>>

\* ------------------------------------------ Celery task send_campaign_message
\* up to "message.status = SENDING; db.commit()"
SendTaskStart(i) ==
  /\ sends[i].pc = "queued"
  /\ messages' = [messages EXCEPT ![sends[i].message].status = "SENDING"]
  /\ sends' = [sends EXCEPT ![i].pc = "sending"]
  /\ UNCHANGED <<now, campaigns, contacts, runs, tasks, sched, evals, bulk, nextWamid, redeliveries, events, app_secret, is_configured>>

\* the row after whatsapp_service.send_campaign_message returned; the failure
\* branch assigns message.error_message, which is no column of messages
TaskMessageSent(row, outcome, wamid, t) ==
  IF outcome = "ok"
  THEN [row EXCEPT !.status = "SENT", !.whatsapp_message_id = wamid, !.sent_at = t]
  ELSE [row EXCEPT !.status = "FAILED"]

SendTaskResult(i, outcome) ==
  /\ sends[i].pc = "sending"
  /\ messages' = [messages EXCEPT ![sends[i].message] = TaskMessageSent(@, outcome, nextWamid, now)]
  /\ nextWamid' = IF outcome = "ok" THEN nextWamid + 1 ELSE nextWamid
  /\ sends' = [sends EXCEPT ![i].pc = "done", ![i].result = outcome]
  /\ UNCHANGED <<now, campaigns, contacts, runs, tasks, sched, evals, bulk, redeliveries, events, app_secret, is_configured>>

RECURSIVE TaskErrorsFrom(_)
TaskErrorsFrom(i) ==
  IF i > Len(sends) THEN 0
  ELSE sends[i].retries + (IF sends[i].pc = "failed" THEN 1 ELSE 0) + TaskErrorsFrom(i + 1)

\* errors raised so far inside send_campaign_message tasks
TaskErrors == TaskErrorsFrom(1)

\* the except branch: an error raised before the provider answered marks the
\* message FAILED and asks Celery for a retry
SendTaskError(i) ==
  /\ sends[i].pc = "sending"
  /\ TaskErrors < MaxTaskErrors
  /\ messages' = [messages EXCEPT ![sends[i].message].status = "FAILED"]
  /\ sends' = IF sends[i].retries < MaxRetries
              THEN [sends EXCEPT ![i].pc = "queued", ![i].retries = @ + 1]
              ELSE [sends EXCEPT ![i].pc = "failed"]
  /\ UNCHANGED <<now, campaigns, contacts, runs, tasks, sched, evals, bulk, nextWamid, redeliveries, events, app_secret, is_configured>>

SendCampaignMessage ==
  \E i \in DOMAIN sends :
    \/ SendTaskStart(i)
    \/ \E outcome \in SendOutcomes : SendTaskResult(i, outcome)
    \/ SendTaskError(i)

\* --------------------------------------------------------- contacts router
\* contact rows changed or added since the table was loaded
ContactChanges ==
  (Len(contacts) - Len(ContactTable))
  + Cardinality({k \in DOMAIN ContactTable : contacts[k] # ContactTable[k]})

\* POST /contacts/ by jeweller 1
CreateContact(seg) ==
  /\ ContactChanges < MaxContactChanges
  /\ contacts' = Append(contacts, [jeweller_id |-> 1, is_deleted |-> FALSE,
                                    opted_out |-> FALSE, segment |-> seg])
  /\ UNCHANGED <<now, campaigns, runs, tasks, messages, sched, evals, bulk, nextWamid, sends, redeliveries, events, app_secret, is_configured>>

\* PATCH /contacts/{k} with opted_out
UpdateContact(k, opted_out) ==
  /\ ContactChanges < MaxContactChanges
  /\ ~ contacts[k].is_deleted
  /\ contacts[k].opted_out # opted_out
  /\ contacts' = [contacts EXCEPT ![k].opted_out = opted_out]
  /\ UNCHANGED <<now, campaigns, runs, tasks, messages, sched, evals, bulk, nextWamid, sends, redeliveries, events, app_secret, is_configured>>

\* DELETE /contacts/{k}
DeleteContact(k) ==
  /\ ContactChanges < MaxContactChanges
  /\ ~ contacts[k].is_deleted
  /\ contacts' = [contacts EXCEPT ![k].is_deleted = TRUE]
  /\ UNCHANGED <<now, campaigns, runs, tasks, messages, sched, evals, bulk, nextWamid, sends, redeliveries, events, app_secret, is_configured>>

\* ------------------------------------------------- scheduler specification
Init ==
  /\ now = 0
  /\ campaigns \in [Campaigns -> CampaignRows]
  /\ contacts = ContactTable
  /\ runs = <<>>
  /\ tasks = <<>>
  /\ messages = <<>>
  /\ sched = [s \in Schedulers |-> IdleSched]
  /\ evals = [c \in Campaigns |-> 0]
  /\ bulk = IdleBulk
  /\ nextWamid = 1
  /\ sends = <<>>
  /\ redeliveries = [r \in 1..MaxRuns |-> 0]
  /\ events = 0
  /\ app_secret = "app-secret"
  /\ is_configured = TRUE

Next ==
  \/ Advance
  \/ CheckAndTriggerBegin
  \/ CheckAndTriggerEval
  \/ \E outcome \in InsertOutcomes : CheckAndTriggerInsert(outcome)
  \/ CheckPendingBegin
  \/ CheckPendingEval
  \/ \E outcome \in InsertOutcomes : CheckPendingInsert(outcome)
  \/ ExecuteCampaignRun

Spec == Init /\ [][Next]_vars

\* ------------------------------------------ provider client and status map
\* WhatsAppService.map_status_to_internal
MapStatusToInternal(wa_status) ==
  CASE wa_status = "sent" -> "SENT"
    [] wa_status = "delivered" -> "DELIVERED"
    [] wa_status = "read" -> "READ"
    [] wa_status = "failed" -> "FAILED"
    [] OTHER -> "QUEUED"

\* ------------------------------------------------------------ MessageService
\* a variant of the lookup that falls back to the first row when no id matches
MessageByWamidOrFirst(msgs, id) ==
  IF \E m \in DOMAIN msgs : msgs[m].whatsapp_message_id = id
  THEN CHOOSE m \in DOMAIN msgs :
         /\ msgs[m].whatsapp_message_id = id
         /\ \A k \in DOMAIN msgs : msgs[k].whatsapp_message_id = id => m <= k
  ELSE IF msgs # <<>> THEN 1 ELSE 0

\* first row of messages whose whatsapp_message_id is id, or 0
MessageByWamid(msgs, id) ==
  IF \E m \in DOMAIN msgs : msgs[m].whatsapp_message_id = id
  THEN CHOOSE m \in DOMAIN msgs :
         /\ msgs[m].whatsapp_message_id = id
         /\ \A k \in DOMAIN msgs : msgs[k].whatsapp_message_id = id => m <= k
  ELSE 0

CountStatus(msgs, r, st) ==
  Cardinality({m \in DOMAIN msgs : msgs[m].campaign_run_id = r /\ msgs[m].status = st})

\* a variant that adds the recount to the stored counters instead of replacing them
UpdateCampaignRunStatsAdding(rs, msgs, r) ==
  IF r \notin DOMAIN rs THEN rs
  ELSE [rs EXCEPT ![r].messages_delivered = @ + CountStatus(msgs, r, "DELIVERED"),
                  ![r].messages_read = @ + CountStatus(msgs, r, "READ"),
                  ![r].messages_failed = @ + CountStatus(msgs, r, "FAILED")]

\* MessageService._update_campaign_run_stats
UpdateCampaignRunStats(rs, msgs, r) ==
  IF r \notin DOMAIN rs THEN rs
  ELSE [rs EXCEPT ![r].messages_delivered = CountStatus(msgs, r, "DELIVERED"),
                  ![r].messages_read = CountStatus(msgs, r, "READ"),
                  ![r].messages_failed = CountStatus(msgs, r, "FAILED")]

\* the row update of MessageService.update_message_status
StatusUpdated(row, wa_status, timestamp, t) ==
  LET st == MapStatusToInternal(wa_status)
      ts == IF timestamp # NoTs THEN timestamp ELSE t
  IN [row EXCEPT !.status = st,
                 !.delivered_at = IF st = "DELIVERED" THEN ts ELSE @,
                 !.read_at = IF st = "READ" THEN ts ELSE @,
                 !.failed_at = IF st = "FAILED" THEN ts ELSE @]

\* MessageService.update_message_status on the tables db, at time t
UpdateMessageStatus(db, id, wa_status, timestamp, t) ==
  LET m == MessageByWamid(db.messages, id)
  IN IF m = 0 THEN db
     ELSE LET msgs == [db.messages EXCEPT ![m] = StatusUpdated(@, wa_status, timestamp, t)]
          IN [db EXCEPT !.messages = msgs,
                        !.runs = IF msgs[m].campaign_run_id # NoRun
                                 THEN UpdateCampaignRunStats(db.runs, msgs, msgs[m].campaign_run_id)
                                 ELSE db.runs]

\* what update_message_status returns: True when the message was found
UpdateMessageStatusResult(db, id) == MessageByWamid(db.messages, id) # 0

\* a variant of the handler that drops the provider's error detail
WhatsappWebhookNoReason(db, cb, t) ==
  UpdateMessageStatus(db, cb.id, cb.status, cb.timestamp, t)

\* POST /webhooks/whatsapp for one status update cb = [id, status, timestamp, error]
WhatsappWebhook(db, cb, t) ==
  LET db1 == UpdateMessageStatus(db, cb.id, cb.status, cb.timestamp, t)
      m == MessageByWamid(db1.messages, cb.id)
  IN IF cb.status = "failed" /\ cb.error # NoReason /\ m # 0
     THEN [db1 EXCEPT !.messages[m].failure_reason = cb.error]
     ELSE db1

CallbackIds == 1..(NumMsgs + 1)

\* status updates of the webhook payload; the provider sends errors with "failed" only
Callbacks ==
  {cb \in [id : CallbackIds,
           status : {"sent", "delivered", "read", "failed", "deleted"},
           timestamp : {NoTs} \cup (0..(MaxTs - 1)),
           error : {NoReason, "provider error"}] :
     cb.error # NoReason => cb.status = "failed"}

DB == [messages |-> messages, runs |-> runs, events |-> events]

\* hmac.new(secret, payload, hashlib.sha256).hexdigest(): a digest that
\* differs whenever the key or the payload differs
HmacSha256(secret, payload) == <<secret, payload>>

NoSignature == [scheme |-> "", digest |-> <<>>]

\* the X-Hub-Signature-256 header of a request signed with key k
Signed(k, payload) == [scheme |-> "sha256", digest |-> HmacSha256(k, payload)]

\* headers the provider sends with payload: none, or its signature
ProviderSignatures(payload) == {NoSignature, Signed("app-secret", payload)}

\* headers any sender can produce: also a signature under another key
Signatures(payload) == ProviderSignatures(payload) \cup {Signed("forged", payload)}

\* verify_webhook_signature under the configured secret
VerifyWebhookSignature(secret, payload, signature) ==
  IF secret = NoSecret THEN TRUE
  ELSE IF signature.scheme # "sha256" THEN FALSE
  ELSE signature.digest = HmacSha256(secret, payload)

\* db.add(WebhookEvent(...)); the table is counted up to MaxEvents rows
EventStored(db) == [db EXCEPT !.events = IF @ < MaxEvents THEN @ + 1 ELSE @]

\* POST /webhooks/whatsapp: the whole request for a payload with one status update
WhatsappWebhookPost(db, secret, cb, signature, t) ==
  IF ~ VerifyWebhookSignature(secret, cb, signature) THEN db
  ELSE WhatsappWebhook(EventStored(db), cb, t)

Webhook(cb, signature) ==
  /\ \E db1 \in {WhatsappWebhookPost(DB, app_secret, cb, signature, now)} :
       messages' = db1.messages /\ runs' = db1.runs /\ events' = db1.events
  /\ UNCHANGED <<now, campaigns, contacts, tasks, sched, evals, bulk, nextWamid, sends, redeliveries, app_secret, is_configured>>

\* MessageService.send_campaign_message: the row after the provider answered
MessageSent(row, outcome, wamid, t) ==
  IF outcome = "ok"
  THEN [row EXCEPT !.whatsapp_message_id = wamid, !.status = "SENT", !.sent_at = t]
  ELSE [row EXCEPT !.status = "FAILED", !.failed_at = t,
                   !.failure_reason = outcome, !.retry_count = @ + 1]

RECURSIVE MessageIdsOfRun(_, _, _)
MessageIdsOfRun(msgs, r, m) ==
  IF m > Len(msgs) THEN <<>>
  ELSE IF msgs[m].campaign_run_id = r
  THEN <<m>> \o MessageIdsOfRun(msgs, r, m + 1)
  ELSE MessageIdsOfRun(msgs, r, m + 1)

\* MessageService.send_bulk_campaign_messages, up to the first send
SendBulkStart(r) ==
  /\ bulk.pc = "idle"
  /\ runs[r].status = "PENDING"
  /\ runs' = [runs EXCEPT ![r].status = "RUNNING", ![r].started_at = now]
  /\ bulk' = [pc |-> "sending", run |-> r, todo |-> MessageIdsOfRun(messages, r, 1),
              sent_count |-> 0, failed_count |-> 0]
  /\ UNCHANGED <<now, campaigns, contacts, tasks, messages, sched, evals, nextWamid, sends, redeliveries, events, app_secret, is_configured>>

\* phone_number[-4:] of the contact: the numbers of contacts k and k + 2 end
\* in the same four digits
LastFour(k) == ((k - 1) % 2) + 1

\* development mode: f"dev_mode_{template_name}_{phone_number[-4:]}", for the
\* one template of a run
DevModeMessageId(contact) == LastFour(contact)

\* the message_id of the MessageResult of a successful send_template_message
SentMessageId(configured, contact, fresh) ==
  IF configured THEN fresh ELSE DevModeMessageId(contact)

\* a table without the unique index on whatsapp_message_id
UniqueViolationNever(msgs, m, wamid) == FALSE

\* Column(String, nullable=True, unique=True): the commit that stores wamid in
\* row m is refused when another row holds it
UniqueViolation(msgs, m, wamid) ==
  \E n \in DOMAIN msgs : n # m /\ msgs[n].whatsapp_message_id = wamid

\* one turn of its loop: send_campaign_message for the next message; development
\* mode always reports success; a refused commit raises out of the loop
SendBulkSend(outcome) ==
  /\ bulk.pc = "sending"
  /\ bulk.todo # <<>>
  /\ is_configured \/ outcome = "ok"
  /\ LET m == Head(bulk.todo)
         wamid == SentMessageId(is_configured, messages[m].contact_id, nextWamid)
     IN IF outcome = "ok" /\ UniqueViolation(messages, m, wamid)
        THEN /\ bulk' = IdleBulk
             /\ UNCHANGED <<messages, nextWamid>>
        ELSE /\ messages' = [messages EXCEPT ![m] = MessageSent(@, outcome, wamid, now)]
             /\ nextWamid' = IF outcome = "ok" /\ is_configured THEN nextWamid + 1 ELSE nextWamid
             /\ bulk' = [bulk EXCEPT !.todo = Tail(@),
                                     !.sent_count = IF outcome = "ok" THEN @ + 1 ELSE @,
                                     !.failed_count = IF outcome = "ok" THEN @ ELSE @ + 1]
  /\ UNCHANGED <<now, campaigns, contacts, runs, tasks, sched, evals, sends, redeliveries, events, app_secret, is_configured>>

\* after the loop: the run's counters and status
SendBulkFinish ==
  /\ bulk.pc = "sending"
  /\ bulk.todo = <<>>
  /\ runs' = [runs EXCEPT ![bulk.run].messages_sent = bulk.sent_count,
                          ![bulk.run].messages_failed = bulk.failed_count,
                          ![bulk.run].status = "COMPLETED"]
  /\ bulk' = IdleBulk
  /\ UNCHANGED <<now, campaigns, contacts, tasks, messages, sched, evals, nextWamid, sends, redeliveries, events, app_secret, is_configured>>

\* ------------------------------------------- dispatch and reconcile specification
QueuedMessages == [m \in 1..NumMsgs |-> NewMessage(NoId, 1, m, "QUEUED")]

MsgInit ==
  /\ now = 0
  /\ campaigns = [c \in Campaigns |->
                    [status |-> "ACTIVE", recurrence_type |-> "DAILY", start_date |-> 0,
                     end_date |-> NoDate, jeweller_id |-> 1, target_segment |-> "none"]]
  /\ contacts = ContactTable
  /\ runs = <<NewRun(1, 0)>>
  /\ tasks = <<"queued">>
  /\ messages = QueuedMessages
  /\ sched = [s \in Schedulers |-> IdleSched]
  /\ evals = [c \in Campaigns |-> 0]
  /\ bulk = IdleBulk
  /\ nextWamid = 1
  /\ sends = <<>>
  /\ redeliveries = [r \in 1..MaxRuns |-> 0]
  /\ events = 0
  /\ app_secret = "app-secret"
  /\ is_configured = TRUE

MsgNext ==
  \/ \E r \in RunIds : SendBulkStart(r)
  \/ \E outcome \in SendOutcomes : SendBulkSend(outcome)
  \/ SendBulkFinish
  \/ \E cb \in Callbacks : \E signature \in ProviderSignatures(cb) : Webhook(cb, signature)

MsgSpec == MsgInit /\ [][MsgNext]_vars

HookInit ==
  /\ now = 0
  /\ campaigns = [c \in Campaigns |->
                    [status |-> "ACTIVE", recurrence_type |-> "DAILY", start_date |-> 0,
                     end_date |-> NoDate, jeweller_id |-> 1, target_segment |-> "none"]]
  /\ contacts = ContactTable
  /\ runs = <<NewRun(1, 0)>>
  /\ tasks = <<"queued">>
  /\ messages = QueuedMessages
  /\ sched = [s \in Schedulers |-> IdleSched]
  /\ evals = [c \in Campaigns |-> 0]
  /\ bulk = IdleBulk
  /\ nextWamid = 1
  /\ sends = <<>>
  /\ redeliveries = [r \in 1..MaxRuns |-> 0]
  /\ events = 0
  /\ app_secret \in {NoSecret, "app-secret"}
  /\ is_configured = TRUE

\* the dispatcher, and requests from any sender
HookNext ==
  \/ \E r \in RunIds : SendBulkStart(r)
  \/ \E outcome \in SendOutcomes : SendBulkSend(outcome)
  \/ SendBulkFinish
  \/ \E cb \in Callbacks : \E signature \in Signatures(cb) : Webhook(cb, signature)

HookSpec == HookInit /\ [][HookNext]_vars

\* ------------------------------------------- run execution specification
\* one run, created at time 0 and handed to Celery
ExecInit ==
  /\ now = 0
  /\ campaigns \in [Campaigns ->
                      [status : {"ACTIVE"}, recurrence_type : {"DAILY"}, start_date : {0},
                       end_date : {NoDate}, jeweller_id : {1},
                       target_segment : {"none", "MARKETING"}]]
  /\ contacts = ContactTable
  /\ runs = <<NewRun(1, 0)>>
  /\ tasks = <<"queued">>
  /\ messages = <<>>
  /\ sched = [s \in Schedulers |-> IdleSched]
  /\ evals = [c \in Campaigns |-> 0]
  /\ bulk = IdleBulk
  /\ nextWamid = 1
  /\ sends = <<>>
  /\ redeliveries = [r \in 1..MaxRuns |-> 0]
  /\ events = 0
  /\ app_secret = "app-secret"
  /\ is_configured = TRUE

ExecNext ==
  \/ ExecuteCampaignRun
  \/ \E r \in RunIds : Redeliver(r)
  \/ SendCampaignMessage
  \/ \E seg \in {"MARKETING", "GOLD_LOAN"} : CreateContact(seg)
  \/ \E k \in DOMAIN contacts : \E v \in BOOLEAN : UpdateContact(k, v)
  \/ \E k \in DOMAIN contacts : DeleteContact(k)

ExecSpec == ExecInit /\ [][ExecNext]_vars

\* --------------------------------------------------------- campaigns router
\* POST /campaigns/{c}/activate
ActivateCampaign(c) ==
  /\ campaigns[c].status = "DRAFT"
  /\ campaigns' = [campaigns EXCEPT ![c].status = "ACTIVE"]
  /\ UNCHANGED <<now, contacts, runs, tasks, messages, sched, evals, bulk, nextWamid, sends, redeliveries, events, app_secret, is_configured>>

\* POST /campaigns/{c}/pause
PauseCampaign(c) ==
  /\ campaigns[c].status = "ACTIVE"
  /\ campaigns' = [campaigns EXCEPT ![c].status = "PAUSED"]
  /\ UNCHANGED <<now, contacts, runs, tasks, messages, sched, evals, bulk, nextWamid, sends, redeliveries, events, app_secret, is_configured>>

\* POST /campaigns/{c}/resume
ResumeCampaign(c) ==
  /\ campaigns[c].status = "PAUSED"
  /\ campaigns' = [campaigns EXCEPT ![c].status = "ACTIVE"]
  /\ UNCHANGED <<now, contacts, runs, tasks, messages, sched, evals, bulk, nextWamid, sends, redeliveries, events, app_secret, is_configured>>

\* PATCH /campaigns/{c} with end_date; CampaignUpdate carries neither status
\* nor start_date, and the handler accepts the campaign in any status
UpdateCampaign(c, end_date) ==
  /\ campaigns[c].end_date # end_date
  /\ campaigns' = [campaigns EXCEPT ![c].end_date = end_date]
  /\ UNCHANGED <<now, contacts, runs, tasks, messages, sched, evals, bulk, nextWamid, sends, redeliveries, events, app_secret, is_configured>>

\* ------------------------------------------- campaign lifecycle specification
\* POST /campaigns/ stores the campaign as DRAFT
LifeInit ==
  /\ now = 0
  /\ campaigns \in [Campaigns ->
                      [status : {"DRAFT"}, recurrence_type : {"DAILY"}, start_date : {0},
                       end_date : {NoDate, 0}, jeweller_id : {1}, target_segment : {"none"}]]
  /\ contacts = ContactTable
  /\ runs = <<>>
  /\ tasks = <<>>
  /\ messages = <<>>
  /\ sched = [s \in Schedulers |-> IdleSched]
  /\ evals = [c \in Campaigns |-> 0]
  /\ bulk = IdleBulk
  /\ nextWamid = 1
  /\ sends = <<>>
  /\ redeliveries = [r \in 1..MaxRuns |-> 0]
  /\ events = 0
  /\ app_secret = "app-secret"
  /\ is_configured = TRUE

LifeNext ==
  \/ Advance
  \/ \E c \in Campaigns : ActivateCampaign(c)
  \/ \E c \in Campaigns : PauseCampaign(c)
  \/ \E c \in Campaigns : ResumeCampaign(c)
  \/ \E c \in Campaigns : \E end_date \in {NoDate, 0} : UpdateCampaign(c, end_date)
  \/ CheckAndTriggerBegin
  \/ CheckAndTriggerEval
  \/ \E outcome \in InsertOutcomes : CheckAndTriggerInsert(outcome)
  \/ CheckPendingBegin
  \/ CheckPendingEval
  \/ \E outcome \in InsertOutcomes : CheckPendingInsert(outcome)
  \/ ExecuteCampaignRun

LifeSpec == LifeInit /\ [][LifeNext]_vars

\* ------------------------------------------ one-time campaign specification
\* an activated ONCE campaign whose start has come
OnceInit ==
  /\ now = 0
  /\ campaigns \in [Campaigns ->
                      [status : {"ACTIVE"}, recurrence_type : {"ONCE"}, start_date : {0},
                       end_date : {NoDate, 0}, jeweller_id : {1}, target_segment : {"none"}]]
  /\ contacts = ContactTable
  /\ runs = <<>>
  /\ tasks = <<>>
  /\ messages = <<>>
  /\ sched = [s \in Schedulers |-> IdleSched]
  /\ evals = [c \in Campaigns |-> 0]
  /\ bulk = IdleBulk
  /\ nextWamid = 1
  /\ sends = <<>>
  /\ redeliveries = [r \in 1..MaxRuns |-> 0]
  /\ events = 0
  /\ app_secret = "app-secret"
  /\ is_configured = TRUE

\* run_campaign_scheduler: one tick of the scheduler every 60 seconds
CheckAndTrigger ==
  \/ CheckAndTriggerBegin
  \/ CheckAndTriggerEval
  \/ \E outcome \in InsertOutcomes : CheckAndTriggerInsert(outcome)

\* beat_schedule: check_pending_campaigns every 60 seconds
CheckPending ==
  \/ CheckPendingBegin
  \/ CheckPendingEval
  \/ \E outcome \in InsertOutcomes : CheckPendingInsert(outcome)

OnceNext ==
  \/ Advance
  \/ CheckAndTrigger
  \/ CheckPending
  \/ ExecuteCampaignRun

\* the clock runs, both schedulers keep ticking and the worker takes the
\* tasks it is handed
OnceFairSpec ==
  /\ OnceInit
  /\ [][OnceNext]_vars
  /\ WF_vars(Advance)
  /\ WF_vars(CheckAndTrigger)
  /\ WF_vars(CheckPending)
  /\ WF_vars(ExecuteCampaignRun)

\* ------------------------------------------------- evaluator specification
RunStatuses == {"PENDING", "RUNNING", "COMPLETED", "FAILED"}

\* a row of campaign_runs of campaign 1 in status st, scheduled at time at
RunRow(at, st) ==
  [NewRun(1, at) EXCEPT !.status = st,
                        !.started_at = IF st = "PENDING" THEN NoDate ELSE at]

\* the state of the Celery task of a run in status st
TaskOf(st) ==
  CASE st = "PENDING" -> "queued"
    [] st = "RUNNING" -> "running"
    [] st = "COMPLETED" -> "done"
    [] OTHER -> "failed"

\* the contents campaign_runs can have at time t: up to MaxRuns runs, created
\* at the first instant or at t, in any status
RunTables(t) ==
  UNION {[1..n -> {RunRow(at, st) : at \in {0, t}, st \in RunStatuses}] : n \in 0..MaxRuns}

\* the scheduler tick taken at any instant over any such table
EvalInit ==
  /\ now \in Instants
  /\ campaigns \in [Campaigns -> CampaignRows]
  /\ contacts = ContactTable
  /\ runs \in RunTables(now)
  /\ tasks = [r \in DOMAIN runs |-> TaskOf(runs[r].status)]
  /\ messages = <<>>
  /\ sched = [s \in Schedulers |-> IdleSched]
  /\ evals = [c \in Campaigns |-> 0]
  /\ bulk = IdleBulk
  /\ nextWamid = 1
  /\ sends = <<>>
  /\ redeliveries = [r \in 1..MaxRuns |-> 0]
  /\ events = 0
  /\ app_secret = "app-secret"
  /\ is_configured = TRUE

EvalNext == CheckAndTrigger

EvalSpec == EvalInit /\ [][EvalNext]_vars

\* ------------------------------------- send task and callbacks specification
\* task_acks_late, task_reject_on_worker_lost apply to every task: the broker
\* delivers send task i again when its worker is lost before the acknowledgement
RedeliverSend(i) ==
  /\ sends[i].pc \in {"sending", "done"}
  /\ sends[i].attempts < MaxRedeliveries
  /\ sends' = [sends EXCEPT ![i].pc = "queued", ![i].attempts = @ + 1]
  /\ UNCHANGED <<now, campaigns, contacts, runs, tasks, messages, sched, evals, bulk, nextWamid, redeliveries, events, app_secret, is_configured>>

\* one run of a campaign for the MARKETING segment, handed to Celery
RaceInit ==
  /\ now = 0
  /\ campaigns = [c \in Campaigns |->
                    [status |-> "ACTIVE", recurrence_type |-> "DAILY", start_date |-> 0,
                     end_date |-> NoDate, jeweller_id |-> 1, target_segment |-> "MARKETING"]]
  /\ contacts = ContactTable
  /\ runs = <<NewRun(1, 0)>>
  /\ tasks = <<"queued">>
  /\ messages = <<>>
  /\ sched = [s \in Schedulers |-> IdleSched]
  /\ evals = [c \in Campaigns |-> 0]
  /\ bulk = IdleBulk
  /\ nextWamid = 1
  /\ sends = <<>>
  /\ redeliveries = [r \in 1..MaxRuns |-> 0]
  /\ events = 0
  /\ app_secret = "app-secret"
  /\ is_configured = TRUE

\* the run task, the send tasks, and the provider's callbacks
RaceNext ==
  \/ ExecuteCampaignRun
  \/ SendCampaignMessage
  \/ \E i \in DOMAIN sends : RedeliverSend(i)
  \/ \E cb \in Callbacks : \E signature \in ProviderSignatures(cb) : Webhook(cb, signature)

RaceSpec == RaceInit /\ [][RaceNext]_vars

\* --------------------------------------- provider message id specification
\* the messages of one run, with the provider configured or in development mode
IdInit ==
  /\ now = 0
  /\ campaigns = [c \in Campaigns |->
                    [status |-> "ACTIVE", recurrence_type |-> "DAILY", start_date |-> 0,
                     end_date |-> NoDate, jeweller_id |-> 1, target_segment |-> "none"]]
  /\ contacts = ContactTable
  /\ runs = <<NewRun(1, 0)>>
  /\ tasks = <<"queued">>
  /\ messages = [m \in 1..(NumMsgs + 2) |-> NewMessage(NoId, 1, m, "QUEUED")]
  /\ sched = [s \in Schedulers |-> IdleSched]
  /\ evals = [c \in Campaigns |-> 0]
  /\ bulk = IdleBulk
  /\ nextWamid = 1
  /\ sends = <<>>
  /\ redeliveries = [r \in 1..MaxRuns |-> 0]
  /\ events = 0
  /\ app_secret = "app-secret"
  /\ is_configured \in BOOLEAN

\* the provider's receipts "sent", "delivered" and "read", without timestamp
Receipts ==
  {cb \in Callbacks : /\ cb.status \in {"sent", "delivered", "read"}
                      /\ cb.timestamp = NoTs
                      /\ cb.error = NoReason}

IdNext ==
  \/ \E r \in RunIds : SendBulkStart(r)
  \/ \E outcome \in SendOutcomes : SendBulkSend(outcome)
  \/ SendBulkFinish
  \/ \E cb \in Receipts : Webhook(cb, Signed("app-secret", cb))

IdSpec == IdInit /\ [][IdNext]_vars

\* ---------------------------------------------- entry point specification
\* either entry point ticks, one tick at a time, over any table of runs
TickInit == EvalInit

TickNext ==
  \/ sched["beat"].pc = "idle" /\ CheckAndTrigger
  \/ sched["api"].pc = "idle" /\ CheckPending

TickSpec == TickInit /\ [][TickNext]_vars

\* ---------------------------------------------------- scheduling properties
Recurring(c) == campaigns[c].recurrence_type \in {"DAILY", "WEEKLY", "MONTHLY"}

\* the runs of campaign c, not FAILED, whose scheduled_at lies in the period of t
LiveRunsInPeriod(c, t) ==
  {r \in RunIds :
     /\ runs[r].campaign_id = c
     /\ runs[r].status # "FAILED"
     /\ SamePeriod(c, runs[r].scheduled_at, t)}

\* C1: for an ACTIVE, started, unexpired DAILY/WEEKLY/MONTHLY campaign, once two
\* or more scheduler ticks taken in the current period have evaluated it,
\* exactly one run that is not FAILED exists for the campaign and the period.
C1_ExactlyOneRunPerPeriod ==
  \A c \in Campaigns :
    (/\ Recurring(c)
     /\ campaigns[c].status = "ACTIVE"
     /\ ~ Expired(c, now)
     /\ evals[c] >= 2)
    => Cardinality(LiveRunsInPeriod(c, now)) = 1

\* C2: at most one run of a ONCE campaign ever reaches RUNNING or COMPLETED
\* (a run that has reached RUNNING carries started_at).
C2_OnceAtMostOneExecuted ==
  \A c \in Campaigns :
    campaigns[c].recurrence_type = "ONCE"
    => Cardinality({r \in RunIds : runs[r].campaign_id = c /\ runs[r].started_at # NoDate}) <= 1

\* scheduler s is about to insert a run for a (campaign, period) that it read as
\* having no run, and another tick has inserted one since
LostRace(s) ==
  /\ sched[s].pc = "insert"
  /\ \E r \in RunIds :
       /\ runs[r].campaign_id = Head(sched[s].todo)
       /\ SamePeriod(Head(sched[s].todo), runs[r].scheduled_at, sched[s].at)
       /\ r > sched[s].seen

\* C3: when two ticks both read the runs of a due campaign before either
\* inserts, the tick that inserts second creates no run for that
\* (campaign, period).
C3_ConcurrentTicksOneRun ==
  [][\A s \in Schedulers : LostRace(s) => (sched'[s].pc = "insert" \/ Len(runs') = Len(runs))]_vars

\* C9: a tick that evaluates an ACTIVE campaign whose end_date is set and earlier
\* than the tick's time leaves the campaign COMPLETED and creates no run for it.
C9_ExpiredCampaignCompleted ==
  [][\A s \in Schedulers :
       (/\ sched[s].pc = "eval"
        /\ sched'[s] # sched[s]
        /\ campaigns[Head(sched[s].todo)].status = "ACTIVE"
        /\ Expired(Head(sched[s].todo), sched[s].at))
       => (/\ campaigns'[Head(sched[s].todo)].status = "COMPLETED"
           /\ sched'[s].pc # "insert")]_vars

\* ------------------------------------------------------- delivery properties
\* position in the order QUEUED < SENT < DELIVERED < READ
Rank(st) ==
  CASE st = "QUEUED" -> 0
    [] st = "SENT" -> 1
    [] st = "DELIVERED" -> 2
    [] st = "READ" -> 3
    [] OTHER -> 0

Ordered == {"QUEUED", "SENT", "DELIVERED", "READ"}

\* a step of the reconciler: the tables change and the dispatcher does not move
ReconcilerStep == bulk' = bulk /\ messages' # messages

\* C4: a delivery callback never moves a message backwards in the order
\* QUEUED < SENT < DELIVERED < READ (so a 'delivered' applied after 'read'
\* leaves the message READ).
C4_StatusNeverDecreases ==
  [][ReconcilerStep =>
       \A m \in DOMAIN messages :
         (messages[m].status \in Ordered /\ messages'[m].status \in Ordered)
         => Rank(messages'[m].status) >= Rank(messages[m].status)]_vars

\* C5: once a message is FAILED no delivery callback changes its status.
C5_FailedNeverExited ==
  [][ReconcilerStep =>
       \A m \in DOMAIN messages :
         messages[m].status = "FAILED" => messages'[m].status = "FAILED"]_vars

\* C6: applying the same delivery callback (same provider message id, status
\* and timestamp) a second time changes neither the message rows (status,
\* timestamps, failure reason) nor the run counters.
C6_CallbackIdempotent ==
  \A cb \in Callbacks :
    cb.timestamp # NoTs
    => LET once == WhatsappWebhook(DB, cb, now)
       IN WhatsappWebhook(once, cb, now) = once

\* a callback has been applied: a message of run 1 is DELIVERED at the
\* callback's timestamp and the run counts it
C6_Witness ==
  \E m \in DOMAIN messages :
    /\ messages[m].status = "DELIVERED"
    /\ messages[m].delivered_at # NoTs
    /\ messages[m].campaign_run_id = 1
    /\ runs[1].messages_delivered >= 1

CountersMatch(r) ==
  /\ runs[r].messages_delivered = CountStatus(messages, r, "DELIVERED")
  /\ runs[r].messages_read = CountStatus(messages, r, "READ")
  /\ runs[r].messages_failed = CountStatus(messages, r, "FAILED")

\* C7: in every state each run's messages_delivered, messages_read and
\* messages_failed equal the number of its messages in that status.
C7_CountersEqualRecount ==
  \A r \in RunIds : CountersMatch(r)

\* C8: once the dispatcher has finished a run (and no callback is in progress)
\* the run's counters equal the number of its messages in each status, whatever
\* callbacks arrived while it was sending.
C8_NoLostCounterUpdate ==
  \A r \in RunIds :
    (runs[r].status = "COMPLETED" /\ bulk.pc = "idle") => CountersMatch(r)

\* C10: when the dispatcher finishes a run all of whose sends succeeded, the run
\* is COMPLETED with eligible_contacts = messages_sent = the size of its
\* audience and messages_failed = 0.
C10_AllSentRunTotals ==
  [][(bulk.pc = "sending" /\ bulk'.pc = "idle" /\ bulk.failed_count = 0)
     => LET r == bulk.run
            n == Len(MessageIdsOfRun(messages, r, 1))
        IN /\ runs'[r].status = "COMPLETED"
           /\ runs'[r].eligible_contacts = n
           /\ runs'[r].messages_sent = n
           /\ runs'[r].messages_failed = 0]_vars

\* ------------------------------------------------------ execution properties
\* provider errors that a new attempt cannot cure, and those it can
Permanent == {"invalid_number"}
Transient == {"timeout", "rate_limited"}

\* the send tasks queued by the executions of run r
SendsOfRun(r) == {i \in DOMAIN sends : sends[i].run = r}

\* the provider answered send task i in this step
ProviderAnswered(i) ==
  /\ sends[i].pc = "sending"
  /\ sends'[i].pc = "done"

\* C11: a run, executed once, of whose n sends k >= 1 got a permanent error and
\* the rest succeeded is COMPLETED with messages_sent = n - k and
\* messages_failed = k.
C11_RunTotalsWithFailures ==
  \A r \in RunIds :
    LET n == Cardinality(SendsOfRun(r))
        k == Cardinality({i \in SendsOfRun(r) : sends[i].result \in Permanent})
    IN (/\ tasks[r] = "done"
        /\ redeliveries[r] = 0
        /\ k >= 1
        /\ \A i \in SendsOfRun(r) :
             sends[i].pc = "done" /\ sends[i].result \in Permanent \cup {"ok"})
       => (/\ runs[r].status = "COMPLETED"
           /\ runs[r].messages_sent = n - k
           /\ runs[r].messages_failed = k)

\* C12: when the provider answers a send with a permanent error the message is
\* FAILED at once, with a failure_reason and retry_count = 0, and its task is
\* not queued again.
C12_PermanentErrorFailsOnce ==
  [][\A i \in DOMAIN sends :
       (ProviderAnswered(i) /\ sends'[i].result \in Permanent)
       => LET row == messages'[sends[i].message]
          IN /\ row.status = "FAILED"
             /\ row.failure_reason # NoReason
             /\ row.retry_count = 0]_vars

\* C13: when the provider answers a send with a transient error, the send is
\* queued again unless it was the third attempt, in which case the message is
\* FAILED with the error as its failure_reason; no send is attempted a fourth
\* time.
C13_TransientErrorRetried ==
  [][\A i \in DOMAIN sends :
       (sends[i].pc = "sending" /\ sends'[i] # sends[i] /\ sends'[i].result \in Transient)
       => LET row == messages'[sends[i].message]
          IN /\ sends[i].retries + 1 <= 3
             /\ IF sends[i].retries + 1 < 3
                THEN sends'[i].pc = "queued" /\ row.status # "FAILED"
                ELSE row.status = "FAILED" /\ row.failure_reason # NoReason]_vars

\* C14: once a run is COMPLETED every contact it created a message for has
\* that message SENT or FAILED, whatever the provider answered for the others.
C14_EveryContactAttempted ==
  \A r \in RunIds :
    runs[r].status = "COMPLETED"
    => \A i \in SendsOfRun(r) : messages[sends[i].message].status \in {"SENT", "FAILED"}

\* C15: a run that is COMPLETED or FAILED keeps its status, and a RUNNING run
\* does not return to PENDING, also when its task is delivered again.
C15_RunStatusMonotone ==
  [][\A r \in RunIds :
       /\ runs[r].status \in {"COMPLETED", "FAILED"} => runs'[r].status = runs[r].status
       /\ runs[r].status = "RUNNING" => runs'[r].status # "PENDING"]_vars

\* C16: no message of a COMPLETED run is still waiting for its first send
\* attempt.
C16_CompletedMeansAllAttempted ==
  \A r \in RunIds :
    runs[r].status = "COMPLETED"
    => \A i \in SendsOfRun(r) : messages[sends[i].message].status # "PENDING"

\* C17: a tick whose hand-over of the new run to Celery failed leaves no
\* PENDING run behind for the campaign and period.
C17_NoPendingRunAfterFailedTick ==
  \A r \in RunIds : ~ (tasks[r] = "lost" /\ runs[r].status = "PENDING")

\* C18: every message a run creates is for a contact of the campaign's
\* jeweller that is neither deleted nor opted out and, when the campaign has a
\* target segment, is in that segment.
C18_NoMessageForIneligibleContact ==
  [][\A m \in DOMAIN messages' :
       m \notin DOMAIN messages
       => LET k == messages'[m].contact_id
              c == messages'[m].campaign_id
          IN /\ contacts[k].jeweller_id = campaigns[c].jeweller_id
             /\ ~ contacts[k].is_deleted
             /\ ~ contacts[k].opted_out
             /\ (campaigns[c].target_segment # "none"
                   => contacts[k].segment = campaigns[c].target_segment)]_vars

\* the contacts the query of execute_campaign_run selects for campaign c from
\* the table as it was when the run was created
AudienceAtCreation(c) ==
  {k \in DOMAIN ContactTable :
     /\ ContactTable[k].jeweller_id = campaigns[c].jeweller_id
     /\ ~ ContactTable[k].is_deleted
     /\ (campaigns[c].target_segment # "none"
           => ContactTable[k].segment = campaigns[c].target_segment)}

\* C19: the contacts a COMPLETED run has created messages for are those its
\* campaign selected when the run was created, whatever contact was added,
\* deleted or opted out since; total_contacts and eligible_contacts keep the
\* values of creation.
C19_AudienceFrozenAtCreation ==
  \A r \in RunIds :
    runs[r].status = "COMPLETED"
    => /\ {messages[sends[i].message].contact_id : i \in SendsOfRun(r)}
            = AudienceAtCreation(runs[r].campaign_id)
       /\ runs[r].total_contacts = NewRun(runs[r].campaign_id, 0).total_contacts
       /\ runs[r].eligible_contacts = NewRun(runs[r].campaign_id, 0).eligible_contacts

\* C20: a request whose signature header is not "sha256=" followed by the
\* digest of its payload under the app secret changes no message, no run and
\* stores no webhook event.
C20_BadSignatureRejected ==
  \A cb \in Callbacks : \A signature \in Signatures(cb) :
    (signature.scheme # "sha256" \/ signature.digest # HmacSha256(app_secret, cb))
    => WhatsappWebhookPost(DB, app_secret, cb, signature, now) = DB

\* ------------------------------------------------- reconciler frame properties
\* C21: a verified delivery callback whose provider message id matches no
\* message returns applied = false, changes no message row and no run counter,
\* and the raw event is still stored (one more row of webhook_events).
C21_UnknownIdRecordedOnly ==
  \A cb \in Callbacks :
    (~ \E m \in DOMAIN messages : messages[m].whatsapp_message_id = cb.id)
    => LET after == WhatsappWebhookPost(DB, app_secret, cb, Signed(app_secret, cb), now)
       IN /\ ~ UpdateMessageStatusResult(EventStored(DB), cb.id)
          /\ after.messages = messages
          /\ after.runs = runs
          /\ (events < MaxEvents => after.events = events + 1)

\* callbacks have been received and stored while no message carries a provider
\* id yet, so every one of them named an unknown id; the tables are untouched
C21_Witness ==
  /\ events >= 1
  /\ messages = QueuedMessages
  /\ runs = <<NewRun(1, 0)>>

\* the reported status st is at or behind the current status cur: READ and
\* FAILED are final, and otherwise st is not later than cur in
\* QUEUED < SENT < DELIVERED < READ
AtOrBehind(cur, st) ==
  \/ cur \in {"READ", "FAILED"}
  \/ (cur \in Ordered /\ st \in Ordered /\ Rank(st) <= Rank(cur))

\* C30: a callback that reports a status at or behind the message's current
\* status returns applied = false and leaves the message row (status,
\* timestamps, failure_reason) and the run counters as they were.
C30_StaleCallbackNoOp ==
  \A cb \in Callbacks :
    LET m == MessageByWamid(messages, cb.id)
    IN (m # 0 /\ AtOrBehind(messages[m].status, MapStatusToInternal(cb.status)))
       => /\ ~ UpdateMessageStatusResult(DB, cb.id)
          /\ WhatsappWebhook(DB, cb, now).messages = messages
          /\ WhatsappWebhook(DB, cb, now).runs = runs

\* ------------------------------------------------- run creation properties
\* the campaign of the run that this step creates, or 0 when it creates none
CreatedFor == IF Len(runs') > Len(runs) THEN runs'[Len(runs')].campaign_id ELSE 0

\* C23: every run's scheduled_at is the boundary of its period: the start of
\* the day, week or month it falls in, or the campaign start for ONCE; it is
\* not the wall-clock time of the tick that created the run.
C23_ScheduledAtIsPeriodBoundary ==
  \A r \in RunIds :
    LET c == runs[r].campaign_id
    IN runs[r].scheduled_at =
         IF campaigns[c].recurrence_type = "ONCE"
         THEN DateTimeOf(campaigns[c].start_date)
         ELSE PeriodStart(campaigns[c].recurrence_type, runs[r].scheduled_at)

\* C22: pausing a campaign leaves its runs and their tasks as they are (a
\* RUNNING run is not cancelled and goes on to COMPLETED), and no step creates
\* a run for a campaign that is PAUSED.
C22_PauseKeepsRunsAndStopsTicks ==
  [][\A c \in Campaigns :
       /\ (campaigns[c].status = "ACTIVE" /\ campaigns'[c].status = "PAUSED")
          => (runs' = runs /\ tasks' = tasks /\ sends' = sends /\ messages' = messages)
       /\ (campaigns[c].status = "PAUSED" /\ runs' = runs)
          => \A r \in RunIds :
               (runs[r].campaign_id = c /\ tasks[r] = "running" /\ tasks'[r] = "done")
               => runs'[r].status = "COMPLETED"
       /\ campaigns[c].status = "PAUSED" => CreatedFor # c]_vars

\* C25: once the scheduler has expired a campaign (status COMPLETED), no step
\* creates a run for it, whatever ticks and activate, pause, resume or update
\* requests follow.
C25_NoRunAfterExpiry ==
  [][\A c \in Campaigns : campaigns[c].status = "COMPLETED" => CreatedFor # c]_vars

\* C27: a run is created only for a campaign that is ACTIVE and whose start is
\* not after the time of the tick that creates it; none is created for a
\* DRAFT, PAUSED or COMPLETED campaign or before the campaign's start.
C27_RunOnlyForActiveStarted ==
  [][\A c \in Campaigns :
       CreatedFor = c
       => /\ campaigns[c].status = "ACTIVE"
          /\ DateTimeOf(campaigns[c].start_date) <= runs'[Len(runs')].scheduled_at]_vars

\* C24: after a run of a ONCE campaign has reached COMPLETED, the campaign's
\* status eventually becomes COMPLETED.
C24_OnceCampaignCompletes ==
  \A c \in Campaigns :
    (/\ campaigns[c].recurrence_type = "ONCE"
     /\ \E r \in RunIds : runs[r].campaign_id = c /\ runs[r].status = "COMPLETED")
    ~> (campaigns[c].status = "COMPLETED")

\* ------------------------------------------------- error handling properties
\* C28: a run whose execution ended with an error (its campaign gone, or any
\* other unrecoverable error) is FAILED; it is not left PENDING or RUNNING.
C28_ErrorLeavesRunFailed ==
  \A r \in RunIds : tasks[r] = "failed" => runs[r].status = "FAILED"

\* C29: no run execution and no message send ends by raising to the worker
\* that called it (task state "failed"), and every message that is FAILED
\* carries a failure reason.
C29_NothingRaisedAllRecorded ==
  /\ \A r \in RunIds : tasks[r] # "failed"
  /\ \A i \in DOMAIN sends : sends[i].pc # "failed"
  /\ \A m \in DOMAIN messages :
       messages[m].status = "FAILED" => messages[m].failure_reason # NoReason

\* ------------------------------------------------------ evaluator properties
\* the rule of the recurrence evaluator: no run of the campaign in status
\* RUNNING or COMPLETED exists with scheduled_at >= periodStart (for ONCE: the
\* start has come and no such run exists at all)
DueByRule(c, t) ==
  IF campaigns[c].recurrence_type = "ONCE"
  THEN /\ t >= DateTimeOf(campaigns[c].start_date)
       /\ ~ \E r \in RunIds :
              runs[r].campaign_id = c /\ runs[r].status \in {"RUNNING", "COMPLETED"}
  ELSE ~ \E r \in RunIds :
           /\ runs[r].campaign_id = c
           /\ runs[r].status \in {"RUNNING", "COMPLETED"}
           /\ runs[r].scheduled_at >= PeriodStart(campaigns[c].recurrence_type, t)

\* C26: when the scheduler's evaluator is asked about an ACTIVE, unexpired
\* campaign it reports it due (the tick goes on to create a run) exactly when
\* the rule above holds; runs in status PENDING or FAILED do not count.
C26_DueExactlyByRule ==
  [][(sched["api"].pc = "eval" /\ sched'["api"] # sched["api"])
     => LET c == Head(sched["api"].todo)
            t == sched["api"].at
        IN (campaigns[c].status = "ACTIVE" /\ ~ Expired(c, t))
           => ((sched'["api"].pc = "insert") <=> DueByRule(c, t))]_vars

\* the evaluator has reported a recurring campaign due although a PENDING or
\* FAILED run of the current period exists
C26_Witness ==
  /\ sched["api"].pc = "insert"
  /\ Recurring(Head(sched["api"].todo))
  /\ \E r \in RunIds :
       /\ r <= sched["api"].seen
       /\ runs[r].campaign_id = Head(sched["api"].todo)
       /\ runs[r].status \in {"PENDING", "FAILED"}
       /\ runs[r].scheduled_at >=
            PeriodStart(campaigns[Head(sched["api"].todo)].recurrence_type, sched["api"].at)

\* ------------------------------------------------- status mapping properties
\* C31: a 'failed' callback that carries an error detail and is applied to a
\* message that is QUEUED, SENT or DELIVERED leaves the message FAILED with
\* the callback's error message as its failure_reason.
C31_FailedCallbackKeepsReason ==
  \A cb \in Callbacks :
    LET m == MessageByWamid(messages, cb.id)
    IN (/\ cb.status = "failed"
        /\ cb.error # NoReason
        /\ m # 0
        /\ messages[m].status \in {"QUEUED", "SENT", "DELIVERED"})
       => LET after == WhatsappWebhook(DB, cb, now)
          IN /\ after.messages[m].status = "FAILED"
             /\ after.messages[m].failure_reason = cb.error

\* a message that the provider accepted has been failed by a callback and
\* carries the callback's error detail
C31_Witness ==
  \E m \in DOMAIN messages :
    /\ messages[m].whatsapp_message_id # NoId
    /\ messages[m].sent_at # NoTs
    /\ messages[m].status = "FAILED"
    /\ messages[m].failure_reason = "provider error"

\* C35: a callback whose status string is none of sent, delivered, read and
\* failed changes no message's status; it never moves a message back to QUEUED.
C35_UnknownStatusIgnored ==
  \A cb \in Callbacks :
    cb.status \notin {"sent", "delivered", "read", "failed"}
    => \A m \in DOMAIN messages :
         WhatsappWebhook(DB, cb, now).messages[m].status = messages[m].status

MessagesOfRunFor(r, k) ==
  {i \in DOMAIN sends : sends[i].run = r /\ messages[sends[i].message].contact_id = k}

\* C33: for every run and contact at most one message to that contact exists
\* in the run, however often the run's task is delivered, and once the run is
\* COMPLETED exactly one exists for every contact of its audience.
C33_OneMessagePerContact ==
  \A r \in RunIds :
    /\ \A k \in DOMAIN contacts : Cardinality(MessagesOfRunFor(r, k)) <= 1
    /\ (runs[r].status = "COMPLETED" /\ contacts = ContactTable)
       => \A k \in TargetContacts(runs[r].campaign_id) :
            Cardinality(MessagesOfRunFor(r, k)) = 1

\* C34: a campaign's status changes only DRAFT -> ACTIVE, ACTIVE -> PAUSED,
\* PAUSED -> ACTIVE and ACTIVE -> COMPLETED; every other request leaves it
\* unchanged, so a COMPLETED campaign stays COMPLETED.
C34_LifecycleTransitions ==
  [][\A c \in Campaigns :
       campaigns'[c].status # campaigns[c].status
       => <<campaigns[c].status, campaigns'[c].status>> \in
            {<<"DRAFT", "ACTIVE">>, <<"ACTIVE", "PAUSED">>,
             <<"PAUSED", "ACTIVE">>, <<"ACTIVE", "COMPLETED">>}]_vars

\* ------------------------------------------------- entry point properties
\* C37: for every campaign the two entry points would pick, every run history
\* and every tick time, check_and_trigger_campaigns creates a run exactly when
\* check_pending_campaigns does, and both leave the campaign in the same status.
C37_EntryPointsAgree ==
  \A c \in Campaigns :
    (campaigns[c].status = "ACTIVE" /\ DateTimeOf(campaigns[c].start_date) <= now)
    => LET apiStatus == IF Expired(c, now) THEN "COMPLETED" ELSE campaigns[c].status
           beatStatus == campaigns[c].status
       IN /\ ShouldExecuteCampaign(c, now) <=> ShouldRun(c, now)
          /\ apiStatus = beatStatus

\* every run of campaign c was scheduled before the period of t began, and
\* one of them is COMPLETED
OnlyEarlierRuns(c, t) ==
  /\ \E r \in RunIds : runs[r].campaign_id = c /\ runs[r].status = "COMPLETED"
  /\ \A r \in RunIds :
       runs[r].campaign_id = c
       => runs[r].scheduled_at < PeriodStart(campaigns[c].recurrence_type, t)

\* C38: when a tick of either entry point evaluates an ACTIVE, unexpired
\* recurring campaign whose runs (one of them COMPLETED) all belong to earlier
\* periods, it goes on to create a run: the earlier runs do not suppress it.
C38_LaterPeriodGetsRun ==
  [][\A s \in Schedulers :
       (/\ sched[s].pc = "eval"
        /\ sched'[s] # sched[s]
        /\ Recurring(Head(sched[s].todo))
        /\ campaigns[Head(sched[s].todo)].status = "ACTIVE"
        /\ ~ Expired(Head(sched[s].todo), sched[s].at)
        /\ OnlyEarlierRuns(Head(sched[s].todo), sched[s].at))
       => sched'[s].pc = "insert"]_vars

\* a tick of check_pending_campaigns has decided to create the run of the
\* current period although a COMPLETED run of an earlier period exists
C38_Witness ==
  /\ sched["beat"].pc = "insert"
  /\ Recurring(Head(sched["beat"].todo))
  /\ campaigns[Head(sched["beat"].todo)].status = "ACTIVE"
  /\ ~ Expired(Head(sched["beat"].todo), sched["beat"].at)
  /\ OnlyEarlierRuns(Head(sched["beat"].todo), sched["beat"].at)

\* C36: a step of the dispatcher never writes SENT or FAILED over a status
\* DELIVERED or READ that a provider callback has recorded for the message
C36_SendKeepsReceipt ==
  [][\A m \in DOMAIN messages :
       (messages[m].status \in {"DELIVERED", "READ"} /\ sends' # sends)
         => messages'[m].status \notin {"SENT", "FAILED"}]_vars

\* C32: every message in SENT, DELIVERED or READ carries a provider message
\* id, and no provider message id is carried by two messages
C32_SentHasOwnProviderId ==
  /\ \A m \in DOMAIN messages :
       messages[m].status \in {"SENT", "DELIVERED", "READ"}
         => messages[m].whatsapp_message_id # NoId
  /\ \A m, n \in DOMAIN messages :
       (m # n /\ messages[m].whatsapp_message_id # NoId)
         => messages[m].whatsapp_message_id # messages[n].whatsapp_message_id

\* C32 witness: in development mode two messages were sent under different ids
\* and the send of a third, whose id one of them holds, was refused
C32_Witness ==
  /\ ~ is_configured
  /\ bulk.pc = "idle"
  /\ runs[1].status = "RUNNING"
  /\ \E m, n, k \in DOMAIN messages :
       /\ messages[m].whatsapp_message_id # NoId
       /\ messages[n].whatsapp_message_id # NoId
       /\ messages[m].whatsapp_message_id # messages[n].whatsapp_message_id
       /\ messages[k].whatsapp_message_id = NoId
       /\ DevModeMessageId(messages[k].contact_id) = messages[m].whatsapp_message_id

====
